---- MODULE Spec2Model ----
(***************************************************************************)
(* Selection Mitra backend (app.py): the per-IP sliding-window rate        *)
(* limiter check_rate_limit over the shared request_log, and the POST      *)
(* /chat handler that consults it, validates the body, calls the external  *)
(* completion API and maps the outcome to a response.                      *)
(*                                                                         *)
(* Time is counted in ticks, TicksPerSec ticks to a second, so that the    *)
(* float returned by time.time() has a fractional part and int() in the    *)
(* handler truncates something.  Each handler invocation is a thread of    *)
(* the HTTP layer; its position in the code is pc[t].                      *)
(***************************************************************************)
EXTENDS Integers, Sequences, FiniteSets, TLC

\* ------------------------------------------------------------------ bounds
TicksPerSec == 2
MaxTime == 4
MaxRequests == 4
MaxConcRequests == 3
MaxStrLen == 2
MaxHdrLen == 2
MaxIpRequests == 3

\* ------------------------------------------------------- program constants
\* app.py:15 and app.py:16, scaled down (3600 s and 120 requests in the source)
RATE_LIMIT_WINDOW == 1
RATE_LIMIT_MAX == 2

\* RATE_LIMIT_WINDOW in ticks
WindowTicks == RATE_LIMIT_WINDOW * TicksPerSec

\* the addresses the direct connections come from
Clients == {<<"a">>, <<"b">>}
\* the worker threads of the HTTP layer
Threads == 1 .. 2
NoIp == <<"-">>

Range(f) == {f[x] : x \in DOMAIN f}

\* ------------------------------------------------------------ pure helpers
\* line 37: q[0] <= now - RATE_LIMIT_WINDOW
ExpiredLate(t0, n) == t0 < n - WindowTicks
ExpiredEarly(t0, n) == t0 <= n - WindowTicks + 1
Expired(t0, n) == t0 <= n - WindowTicks

\* line 39: len(q) >= RATE_LIMIT_MAX
FullOffByOne(len) == len > RATE_LIMIT_MAX
Full(len) == len >= RATE_LIMIT_MAX

\* line 40: RATE_LIMIT_WINDOW - (now - q[0]), in ticks
RetryAfterWholeWindow(n, t0) == WindowTicks
RetryAfterSignSlip(n, t0) == WindowTicks + (n - t0)
RetryAfter(n, t0) == WindowTicks - (n - t0)

\* line 69: int(retry_after): truncation toward zero of the value in seconds
PyInt(r) == IF r >= 0 THEN r \div TicksPerSec ELSE -((-r) \div TicksPerSec)

\* line 35: request_log[ip], the lookup half of defaultdict.__getitem__
LookupAnyKey(log, i) == log[CHOOSE c \in Clients : TRUE]
Lookup(log, i) == log[i]

\* ------------------------------------------------------------------ strings
Chars == {"a", " "}
IsSpace(c) == c = " "
Strings == UNION {[1 .. n -> Chars] : n \in 0 .. MaxStrLen}

RECURSIVE LStrip(_)
LStrip(s) == IF s # <<>> /\ IsSpace(Head(s)) THEN LStrip(Tail(s)) ELSE s

RECURSIVE RStrip(_)
RStrip(s) ==
    IF s # <<>> /\ IsSpace(s[Len(s)]) THEN RStrip(SubSeq(s, 1, Len(s) - 1)) ELSE s

\* line 57: s.strip()
NoStrip(s) == s
sanitize_text(s) == RStrip(LStrip(s))

\* ------------------------------------------------------ client identifier
\* What ip_from_request reads of a request: whether it carries an
\* X-Forwarded-For header and the header's value, and remote_addr (<<>> when
\* it is None or empty, which `or` treats alike).
HdrChars == {"a", " ", ","}
HeaderValues == UNION {[1 .. n -> HdrChars] : n \in 0 .. MaxHdrLen}
Raw(h, v, a) == [hasXff |-> h, xff |-> v, remote |-> a]
NoRequest == Raw(FALSE, <<>>, NoIp)
\* a request that comes straight from address c
PlainRequest(c) == Raw(FALSE, <<>>, c)
RawRequests ==
    {Raw(FALSE, <<>>, a) : a \in Clients \cup {<<>>}}
    \cup {Raw(TRUE, v, a) : v \in HeaderValues, a \in Clients \cup {<<>>}}

\* line 31: the sentinel
Unknown == <<"unknown">>

\* line 30: .split(",")[0]
RECURSIVE FirstEntry(_)
FirstEntry(s) ==
    IF s = <<>> \/ Head(s) = "," THEN <<>> ELSE <<Head(s)>> \o FirstEntry(Tail(s))

\* .split(",")[-1]
RECURSIVE LastEntry(_)
LastEntry(s) ==
    IF s = <<>> \/ s[Len(s)] = "," THEN <<>>
    ELSE LastEntry(SubSeq(s, 1, Len(s) - 1)) \o <<s[Len(s)]>>

\* lines 27-31
ip_from_request_last(req) ==
    IF req.hasXff THEN RStrip(LStrip(LastEntry(req.xff)))
    ELSE IF req.remote # <<>> THEN req.remote ELSE Unknown
ip_from_request(req) ==
    IF req.hasXff THEN RStrip(LStrip(FirstEntry(req.xff)))
    ELSE IF req.remote # <<>> THEN req.remote ELSE Unknown

\* every identifier a request can be given: the keys request_log can hold
Identifiers == {ip_from_request(r) : r \in RawRequests}

\* deque objects live on a heap; 0 is "no deque"
NoDeque == 0
DequeIds == 1 .. (Cardinality(Identifiers) + Cardinality(Threads))

\* ------------------------------------------------------------ request body
\* What request.get_json(silent=True) returns (line 71): kind "absent" is None
\* (no body, or a body that is not JSON); empty is Python falsiness of the
\* value; has is whether the value contains "message" (a key of an object, an
\* element of a list, a substring of a string); mkind/text are the value
\* stored under "message" in an object.
Body(k, e, h, m, x) == [kind |-> k, empty |-> e, has |-> h, mkind |-> m, text |-> x]

AbsentBody == Body("absent", TRUE, FALSE, "none", <<>>)
WellFormedBody == Body("object", FALSE, TRUE, "str", <<"a">>)

Bodies ==
    {AbsentBody}
    \cup {Body("object", TRUE, FALSE, "none", <<>>), Body("object", FALSE, FALSE, "none", <<>>)}
    \cup {Body("object", FALSE, TRUE, "str", x) : x \in Strings}
    \cup {Body("object", FALSE, TRUE, m, <<>>) : m \in {"num", "null"}}
    \cup {Body(k, TRUE, FALSE, "none", <<>>) : k \in {"list", "string", "number"}}
    \cup {Body(k, FALSE, h, "none", <<>>) : k \in {"list", "string"}, h \in BOOLEAN}
    \cup {Body("number", FALSE, FALSE, "none", <<>>)}

\* the message text of a body that carries one
HasText(b) == b.kind = "object" /\ b.has /\ b.mkind = "str"

\* lines 72-77: "ok", "missing" (400 at line 73), "empty" (400 at line 77) or
\* "raise" (TypeError of `in` on a number, AttributeError of .get on a list or
\* string, AttributeError of .strip on a value that is no string)
Validate(b) ==
    IF b.kind = "absent" \/ b.empty THEN "missing"
    ELSE IF b.kind = "number" THEN "raise"
    ELSE IF ~b.has THEN "missing"
    ELSE IF b.kind # "object" THEN "raise"
    ELSE IF b.mkind # "str" THEN "raise"
    ELSE IF sanitize_text(b.text) = <<>> THEN "empty"
    ELSE "ok"

\* --------------------------------------------------------------- responses
Response(s, e, m, r, n) ==
    [status |-> s, error |-> e, message |-> m, reply |-> r, retry_after_seconds |-> n]

NoResponse == Response(0, "-", "-", "-", 0)
\* line 69
RateLimited(r) == Response(429, "rate_limited", "-", "-", PyInt(r))
\* line 73
MissingMessage == Response(400, "invalid_request", "missing", "-", 0)
\* line 77
EmptyMessage == Response(400, "invalid_request", "empty", "-", 0)
\* line 108
Reply(r) == Response(200, "-", "-", r, 0)
\* line 113
OpenAIError == Response(500, "openai_error", "exception", "-", 0)
\* an exception that leaves chat(): the framework's own 500 page
Unhandled == Response(500, "unhandled", "-", "-", 0)

\* --------------------------------------------------- the external completion
\* Outcome of client.chat.completions.create (line 90): it raises, or returns
\* an object whose shape is choices ("empty" list or "one" choice), the first
\* choice's message (attribute "absent", None, or an object) with its content
\* (attribute "absent", None, or a string), and the first choice's text
\* (attribute "absent", an empty string, or a string).
Ext(x, c, m, k, t) == [raises |-> x, choices |-> c, message |-> m, content |-> k, text |-> t]

NoExt == Ext(FALSE, "-", "-", "-", "-")
Raises == Ext(TRUE, "-", "-", "-", "-")
WellFormedExt == Ext(FALSE, "one", "obj", "str", "absent")

ExtResults ==
    {Raises, Ext(FALSE, "empty", "-", "-", "-")}
    \cup {Ext(FALSE, "one", "obj", k, t) :
            k \in {"absent", "null", "str"}, t \in {"absent", "empty", "str"}}
    \cup {Ext(FALSE, "one", m, "absent", t) :
            m \in {"absent", "null"}, t \in {"absent", "empty", "str"}}

\* line 102: resp.choices[0].message.content, "exc" when it raises
Content(r) ==
    IF r.choices # "one" THEN "exc"
    ELSE IF r.message # "obj" THEN "exc"
    ELSE IF r.content = "absent" THEN "exc"
    ELSE IF r.content = "null" THEN "null" ELSE "content"

\* line 105: getattr(resp.choices[0], "text", "") or "Maaf ...", "exc" when
\* resp.choices[0] raises again
Fallback(r) ==
    IF r.choices # "one" THEN "exc"
    ELSE IF r.text = "str" THEN "text" ELSE "fallback"

\* lines 88-113: the response for an outcome of the external call
CompleteSwallowsError(r) ==
    IF r.raises THEN Reply("fallback")
    ELSE IF Content(r) # "exc" THEN Reply(Content(r))
    ELSE IF Fallback(r) # "exc" THEN Reply(Fallback(r))
    ELSE OpenAIError
Complete(r) ==
    IF r.raises THEN OpenAIError
    ELSE IF Content(r) # "exc" THEN Reply(Content(r))
    ELSE IF Fallback(r) # "exc" THEN Reply(Fallback(r))
    ELSE OpenAIError

\* -------------------------------------------------------------------- state
VARIABLES
    clock,        \* time.time(), in ticks
    request_log,  \* line 24: client identifier -> deque (NoDeque: key absent)
    deques,       \* the deque objects: id -> timestamps, oldest first
    pc,           \* per thread: position in chat() / check_rate_limit()
    request,      \* the request's X-Forwarded-For header and remote_addr, until line 66
    ip,           \* line 66: the request's client identifier
    body,         \* the request's body, as get_json will return it
    now,          \* line 34: check_rate_limit's local now
    q,            \* line 35: check_rate_limit's local q (a deque id)
    retry_after,  \* line 67: the second component of check_rate_limit's result
    resp,         \* line 90: the outcome of the external call
    response,     \* the HTTP response of the request
    admitted,     \* history: per client, the timestamps appended at line 41
    lastDenied,   \* history: per client, whether its latest decision was a denial
    denial,       \* history: per client, when its latest denial told it to return
    invalidOnly,  \* history: whether every request admitted so far ended in 400
    entry,        \* history: the client's window when the call read it at line 35
    extCalls,     \* history: external calls made for the thread's current request
    nreq          \* number of requests received so far

shared == <<request_log, deques>>
history == <<admitted, lastDenied, denial, invalidOnly, entry, extCalls>>
vars ==
    <<clock, request_log, deques, pc, request, ip, body, now, q, retry_after, resp,
      response, admitted, lastDenied, denial, invalidOnly, entry, extCalls, nreq>>

\* what a denial tells the client: exact is the time of the denial plus the
\* retry-after of line 40, whole the time of the denial plus the
\* retry_after_seconds of line 69 (both in ticks); -1 when the client's
\* latest decision was no denial
Denial(x, w) == [exact |-> x, whole |-> w]
NoDenial == Denial(-1, -1)

\* positions inside check_rate_limit, after its first line
CheckPCs == {"rl_get", "rl_factory", "rl_while", "rl_front", "rl_pop", "rl_len",
             "rl_deny", "rl_append"}

\* the window request_log holds for a client (empty when the key is absent)
Window(c) == IF request_log[c] = NoDeque THEN <<>> ELSE deques[request_log[c]]

\* a deque no dictionary entry and no local q refers to is garbage: its slot
\* is emptied for reuse
Collect(dq, log, qs) ==
    [d \in DequeIds |-> IF d \in Range(log) \cup Range(qs) THEN dq[d] ELSE <<>>]

\* line 24: deque() of the default factory: a fresh object
NewDeque == CHOOSE d \in DequeIds :
    /\ d \notin Range(request_log) \cup Range(q)
    /\ \A e \in DequeIds : e \notin Range(request_log) \cup Range(q) => d <= e

Init ==
    /\ clock = 0
    /\ request_log = [c \in Identifiers |-> NoDeque]
    /\ deques = [d \in DequeIds |-> <<>>]
    /\ pc = [t \in Threads |-> "idle"]
    /\ request = [t \in Threads |-> NoRequest]
    /\ ip = [t \in Threads |-> NoIp]
    /\ body = [t \in Threads |-> AbsentBody]
    /\ now = [t \in Threads |-> 0]
    /\ q = [t \in Threads |-> NoDeque]
    /\ retry_after = [t \in Threads |-> 0]
    /\ resp = [t \in Threads |-> NoExt]
    /\ response = [t \in Threads |-> NoResponse]
    /\ admitted = [c \in Identifiers |-> <<>>]
    /\ lastDenied = [c \in Identifiers |-> FALSE]
    /\ denial = [c \in Identifiers |-> NoDenial]
    /\ invalidOnly = TRUE
    /\ entry = [t \in Threads |-> <<>>]
    /\ extCalls = [t \in Threads |-> 0]
    /\ nreq = 0

\* ----------------------------------------------------------------- actions
\* Time passes.  The clock is read at line 34 and nowhere else, so the passing
\* of time is observable only by a thread about to read it: the tick is taken
\* there.
Tick ==
    /\ clock < MaxTime
    /\ \E t \in Threads : pc[t] = "rl_now"
    /\ clock' = clock + 1
    /\ UNCHANGED <<shared, pc, request, ip, body, now, q, retry_after, resp, response, history, nreq>>

\* a POST /chat arrives and the HTTP layer hands it to the first free worker
\* thread
Request(t, r, b) ==
    /\ pc[t] = "idle"
    /\ \A u \in Threads : pc[u] = "idle" => t <= u
    /\ nreq < MaxRequests
    /\ request' = [request EXCEPT ![t] = r]
    /\ body' = [body EXCEPT ![t] = b]
    /\ pc' = [pc EXCEPT ![t] = "chat_ip"]
    /\ nreq' = nreq + 1
    /\ UNCHANGED <<clock, shared, ip, now, q, retry_after, resp, response, history>>

\* line 66: ip = ip_from_request(request); the header and the address are
\* not read again
ChatIp(t) ==
    /\ pc[t] = "chat_ip"
    /\ ip' = [ip EXCEPT ![t] = ip_from_request(request[t])]
    /\ request' = [request EXCEPT ![t] = NoRequest]
    /\ pc' = [pc EXCEPT ![t] = "rl_now"]
    /\ UNCHANGED <<clock, shared, body, now, q, retry_after, resp, response, history, nreq>>

\* line 34: now = time.time()
RlNowUnderLock(t) ==
    /\ pc[t] = "rl_now"
    /\ \A u \in Threads \ {t} : pc[u] # "chat_wait"
    /\ now' = [now EXCEPT ![t] = clock]
    /\ pc' = [pc EXCEPT ![t] = "rl_get"]
    /\ UNCHANGED <<clock, shared, request, ip, body, q, retry_after, resp, response, history, nreq>>
RlNow(t) ==
    /\ pc[t] = "rl_now"
    /\ now' = [now EXCEPT ![t] = clock]
    /\ pc' = [pc EXCEPT ![t] = "rl_get"]
    /\ UNCHANGED <<clock, shared, request, ip, body, q, retry_after, resp, response, history, nreq>>

\* line 35: q = request_log[ip], the key present; a missing key goes to the
\* default factory
RlGet(t) ==
    /\ pc[t] = "rl_get"
    /\ LET d == Lookup(request_log, ip[t]) IN
         IF d # NoDeque
         THEN /\ q' = [q EXCEPT ![t] = d]
              /\ entry' = [entry EXCEPT ![t] = deques[d]]
              /\ pc' = [pc EXCEPT ![t] = "rl_while"]
         ELSE /\ pc' = [pc EXCEPT ![t] = "rl_factory"]
              /\ UNCHANGED <<q, entry>>
    /\ UNCHANGED <<clock, shared, request, ip, body, now, retry_after, resp, response,
                   admitted, lastDenied, denial, invalidOnly, extCalls, nreq>>

\* lines 24, 35: the factory's deque is stored under the key and returned,
\* replacing whatever another thread stored there since the lookup
RlFactory(t) ==
    /\ pc[t] = "rl_factory"
    /\ LET d == NewDeque IN
         /\ q' = [q EXCEPT ![t] = d]
         /\ request_log' = [request_log EXCEPT ![ip[t]] = d]
         /\ deques' = Collect([deques EXCEPT ![d] = <<>>], request_log', q')
    /\ entry' = [entry EXCEPT ![t] = <<>>]
    /\ pc' = [pc EXCEPT ![t] = "rl_while"]
    /\ UNCHANGED <<clock, request, ip, body, now, retry_after, resp, response,
                   admitted, lastDenied, denial, invalidOnly, extCalls, nreq>>

\* an exception leaves check_rate_limit and chat: locals are dropped
Raise(t) ==
    /\ q' = [q EXCEPT ![t] = NoDeque]
    /\ deques' = Collect(deques, request_log, q')
    /\ now' = [now EXCEPT ![t] = 0]
    /\ entry' = [entry EXCEPT ![t] = <<>>]
    /\ response' = [response EXCEPT ![t] = Unhandled]
    /\ pc' = [pc EXCEPT ![t] = "done"]
    /\ UNCHANGED <<request_log, retry_after, admitted, lastDenied, denial, invalidOnly>>

\* line 37: while q
RlWhile(t) ==
    /\ pc[t] = "rl_while"
    /\ pc' = [pc EXCEPT ![t] = IF deques[q[t]] # <<>> THEN "rl_front" ELSE "rl_len"]
    /\ UNCHANGED <<clock, shared, request, ip, body, now, q, retry_after, resp, response, history, nreq>>

\* line 37: and q[0] <= now - RATE_LIMIT_WINDOW (IndexError on an empty deque)
RlFront(t) ==
    /\ pc[t] = "rl_front"
    /\ IF deques[q[t]] = <<>>
       THEN Raise(t)
       ELSE /\ pc' = [pc EXCEPT ![t] =
                        IF Expired(Head(deques[q[t]]), now[t]) THEN "rl_pop" ELSE "rl_len"]
            /\ UNCHANGED <<shared, now, q, retry_after, response, admitted, lastDenied, denial, invalidOnly, entry>>
    /\ UNCHANGED <<clock, request, ip, body, resp, extCalls, nreq>>

\* line 38: q.popleft() (IndexError on an empty deque)
RlPop(t) ==
    /\ pc[t] = "rl_pop"
    /\ IF deques[q[t]] = <<>>
       THEN Raise(t)
       ELSE /\ deques' = [deques EXCEPT ![q[t]] = Tail(@)]
            /\ pc' = [pc EXCEPT ![t] = "rl_while"]
            /\ UNCHANGED <<request_log, now, q, retry_after, response, admitted, lastDenied, denial, invalidOnly, entry>>
    /\ UNCHANGED <<clock, request, ip, body, resp, extCalls, nreq>>

\* line 39: if len(q) >= RATE_LIMIT_MAX
RlLen(t) ==
    /\ pc[t] = "rl_len"
    /\ pc' = [pc EXCEPT ![t] = IF Full(Len(deques[q[t]])) THEN "rl_deny" ELSE "rl_append"]
    /\ UNCHANGED <<clock, shared, request, ip, body, now, q, retry_after, resp, response, history, nreq>>

\* line 40: return False, RATE_LIMIT_WINDOW - (now - q[0]) (IndexError on an
\* empty deque); lines 67-69: the 429 response
RlDenyRecords(t) ==
    /\ pc[t] = "rl_deny"
    /\ IF deques[q[t]] = <<>>
       THEN Raise(t)
       ELSE /\ retry_after' = [retry_after EXCEPT ![t] = RetryAfter(now[t], Head(deques[q[t]]))]
            /\ lastDenied' = [lastDenied EXCEPT ![ip[t]] = TRUE]
            /\ q' = [q EXCEPT ![t] = NoDeque]
            /\ deques' = Collect([deques EXCEPT ![q[t]] = Append(@, now[t])], request_log, q')
            /\ now' = [now EXCEPT ![t] = 0]
            /\ entry' = [entry EXCEPT ![t] = <<>>]
            /\ response' = [response EXCEPT ![t] = RateLimited(retry_after'[t])]
            /\ denial' = [denial EXCEPT ![ip[t]] =
                             Denial(now[t] + retry_after'[t],
                                    now[t] + response'[t].retry_after_seconds * TicksPerSec)]
            /\ pc' = [pc EXCEPT ![t] = "done"]
            /\ UNCHANGED <<request_log, admitted, invalidOnly>>
    /\ UNCHANGED <<clock, request, ip, body, resp, extCalls, nreq>>
RlDeny(t) ==
    /\ pc[t] = "rl_deny"
    /\ IF deques[q[t]] = <<>>
       THEN Raise(t)
       ELSE /\ retry_after' = [retry_after EXCEPT ![t] = RetryAfter(now[t], Head(deques[q[t]]))]
            /\ lastDenied' = [lastDenied EXCEPT ![ip[t]] = TRUE]
            /\ q' = [q EXCEPT ![t] = NoDeque]
            /\ deques' = Collect(deques, request_log, q')
            /\ now' = [now EXCEPT ![t] = 0]
            /\ entry' = [entry EXCEPT ![t] = <<>>]
            /\ response' = [response EXCEPT ![t] = RateLimited(retry_after'[t])]
            /\ denial' = [denial EXCEPT ![ip[t]] =
                             Denial(now[t] + retry_after'[t],
                                    now[t] + response'[t].retry_after_seconds * TicksPerSec)]
            /\ pc' = [pc EXCEPT ![t] = "done"]
            /\ UNCHANGED <<request_log, admitted, invalidOnly>>
    /\ UNCHANGED <<clock, request, ip, body, resp, extCalls, nreq>>

\* lines 41-42: q.append(now); return True, None
RlAppendForgets(t) ==
    /\ pc[t] = "rl_append"
    /\ q' = [q EXCEPT ![t] = NoDeque]
    /\ deques' = Collect(deques, request_log, q')
    /\ admitted' = [admitted EXCEPT ![ip[t]] = Append(@, now[t])]
    /\ lastDenied' = [lastDenied EXCEPT ![ip[t]] = FALSE]
    /\ denial' = [denial EXCEPT ![ip[t]] = NoDenial]
    /\ now' = [now EXCEPT ![t] = 0]
    /\ entry' = [entry EXCEPT ![t] = <<>>]
    /\ pc' = [pc EXCEPT ![t] = "chat_json"]
    /\ UNCHANGED <<clock, request_log, request, ip, body, retry_after, resp, response,
                   invalidOnly, extCalls, nreq>>
RlAppend(t) ==
    /\ pc[t] = "rl_append"
    /\ q' = [q EXCEPT ![t] = NoDeque]
    /\ deques' = Collect([deques EXCEPT ![q[t]] = Append(@, now[t])], request_log, q')
    /\ admitted' = [admitted EXCEPT ![ip[t]] = Append(@, now[t])]
    /\ lastDenied' = [lastDenied EXCEPT ![ip[t]] = FALSE]
    /\ denial' = [denial EXCEPT ![ip[t]] = NoDenial]
    /\ now' = [now EXCEPT ![t] = 0]
    /\ entry' = [entry EXCEPT ![t] = <<>>]
    /\ pc' = [pc EXCEPT ![t] = "chat_json"]
    /\ UNCHANGED <<clock, request_log, request, ip, body, retry_after, resp, response,
                   invalidOnly, extCalls, nreq>>

\* lines 71-90: parse and validate the body; a valid message is wrapped in
\* the two-message conversation and the external call is made, in which the
\* thread is suspended
ChatJson(t) ==
    /\ pc[t] = "chat_json"
    /\ LET v == Validate(body[t]) IN
         /\ response' = [response EXCEPT ![t] =
                           CASE v = "missing" -> MissingMessage
                             [] v = "empty" -> EmptyMessage
                             [] v = "raise" -> Unhandled
                             [] OTHER -> NoResponse]
         /\ extCalls' = [extCalls EXCEPT ![t] = IF v = "ok" THEN @ + 1 ELSE @]
         /\ invalidOnly' = (invalidOnly /\ v \in {"missing", "empty"})
         /\ pc' = [pc EXCEPT ![t] = IF v = "ok" THEN "chat_wait" ELSE "done"]
    /\ UNCHANGED <<clock, shared, request, ip, body, now, q, retry_after, resp,
                   admitted, lastDenied, denial, entry, nreq>>

\* lines 90-113: the external call raises or returns r, and the handler maps
\* it to the response
ChatComplete(t, r) ==
    /\ pc[t] = "chat_wait"
    /\ resp' = [resp EXCEPT ![t] = r]
    /\ response' = [response EXCEPT ![t] = Complete(r)]
    /\ pc' = [pc EXCEPT ![t] = "done"]
    /\ UNCHANGED <<clock, shared, request, ip, body, now, q, retry_after, history, nreq>>

\* the response is sent and the thread is free for the next request
Finish(t) ==
    /\ pc[t] = "done"
    /\ pc' = [pc EXCEPT ![t] = "idle"]
    /\ request' = [request EXCEPT ![t] = NoRequest]
    /\ ip' = [ip EXCEPT ![t] = NoIp]
    /\ body' = [body EXCEPT ![t] = AbsentBody]
    /\ retry_after' = [retry_after EXCEPT ![t] = 0]
    /\ resp' = [resp EXCEPT ![t] = NoExt]
    /\ response' = [response EXCEPT ![t] = NoResponse]
    /\ extCalls' = [extCalls EXCEPT ![t] = 0]
    /\ UNCHANGED <<clock, shared, now, q, admitted, lastDenied, denial, invalidOnly, entry, nreq>>

\* no handler is running
AllIdle == \A u \in Threads : pc[u] = "idle"

\* the steps of a handler
Steps(t) ==
    \/ ChatIp(t)
    \/ RlNow(t)
    \/ RlGet(t)
    \/ RlFactory(t)
    \/ RlWhile(t)
    \/ RlFront(t)
    \/ RlPop(t)
    \/ RlLen(t)
    \/ RlDeny(t)
    \/ RlAppend(t)
    \/ ChatJson(t)
    \/ \E r \in ExtResults : ChatComplete(t, r)
    \/ Finish(t)

\* the same steps, the external call either failing or answering well
ConcSteps(t) ==
    \/ ChatIp(t)
    \/ RlNow(t)
    \/ RlGet(t)
    \/ RlFactory(t)
    \/ RlWhile(t)
    \/ RlFront(t)
    \/ RlPop(t)
    \/ RlLen(t)
    \/ RlDeny(t)
    \/ RlAppend(t)
    \/ ChatJson(t)
    \/ \E r \in {Raises, WellFormedExt} : ChatComplete(t, r)
    \/ Finish(t)

\* One request at a time (a single worker, or requests that arrive apart),
\* with every shape of body.
Next ==
    \/ Tick
    \/ \E t \in Threads, c \in Clients, b \in Bodies :
          AllIdle /\ Request(t, PlainRequest(c), b)
    \/ \E t \in Threads : Steps(t)

Spec == Init /\ [][Next]_vars

\* Handlers run by the threaded HTTP layer: every step of check_rate_limit
\* interleaves with every step of the other threads.
NextConc ==
    \/ Tick
    \/ \E t \in Threads, c \in Clients :
          nreq < MaxConcRequests /\ Request(t, PlainRequest(c), WellFormedBody)
    \/ \E t \in Threads : ConcSteps(t)

SpecConc == Init /\ [][NextConc]_vars

\* the same steps, the external call answering well
IpSteps(t) ==
    \/ ChatIp(t)
    \/ RlNow(t)
    \/ RlGet(t)
    \/ RlFactory(t)
    \/ RlWhile(t)
    \/ RlFront(t)
    \/ RlPop(t)
    \/ RlLen(t)
    \/ RlDeny(t)
    \/ RlAppend(t)
    \/ ChatJson(t)
    \/ ChatComplete(t, WellFormedExt)
    \/ Finish(t)

\* One request at a time, with every form of X-Forwarded-For header and
\* remote_addr.
NextIp ==
    \/ Tick
    \/ \E t \in Threads, r \in RawRequests :
          nreq < MaxIpRequests /\ AllIdle /\ Request(t, r, WellFormedBody)
    \/ \E t \in Threads : IpSteps(t)

SpecIp == Init /\ [][NextIp]_vars

\* ------------------------------------------------------------------ claims
\* the admitted requests of client c with a timestamp in the trailing window (T - W, T]
InWindow(c, T) ==
    {i \in DOMAIN admitted[c] : T - WindowTicks < admitted[c][i] /\ admitted[c][i] <= T}

\* the entries of s that a check at time n must keep
Unexpired(s, n) == SelectSeq(s, LAMBDA x : x > n - WindowTicks)

\* C1: with sequential checks and a non-decreasing clock, at every instant T
\* the number of a client's admitted requests with a timestamp in (T - W, T]
\* is at most RATE_LIMIT_MAX, for every trailing interval and not only for
\* aligned buckets.
C1_SlidingWindowBound ==
    \A c \in Clients, T \in 0 .. MaxTime : Cardinality(InWindow(c, T)) <= RATE_LIMIT_MAX

\* three admissions, the third one in a full trailing interval that is not an
\* aligned bucket
C1_Witness ==
    \E c \in Clients, T \in 1 .. MaxTime :
        /\ Len(admitted[c]) > RATE_LIMIT_MAX
        /\ T % WindowTicks # 0
        /\ Cardinality(InWindow(c, T)) = RATE_LIMIT_MAX
        /\ admitted[c][Len(admitted[c])] = T

\* C2: when more than RATE_LIMIT_MAX requests of one client run
\* check_rate_limit concurrently within one window, no interleaving admits
\* more than RATE_LIMIT_MAX of them.
C2_AtMostMaxAdmitted ==
    \A c \in Clients : clock < WindowTicks => Len(admitted[c]) <= RATE_LIMIT_MAX

\* C3: once RATE_LIMIT_MAX requests of a client were admitted at times
\* t1 <= ... <= tMAX, every later request of that client at a time now with
\* now < t1 + W is denied: a check that has decided, with RATE_LIMIT_MAX
\* admitted timestamps still inside its window, has decided to deny.
C3_DeniedWhileWindowFull ==
    \A t \in Threads :
        (/\ pc[t] \in {"rl_deny", "rl_append"}
         /\ Cardinality(InWindow(ip[t], now[t])) >= RATE_LIMIT_MAX)
        => pc[t] = "rl_deny"

\* a denial at a later time than the first of the admitted requests
C3_Witness ==
    \E t \in Threads :
        /\ pc[t] = "rl_deny"
        /\ Len(admitted[ip[t]]) = RATE_LIMIT_MAX
        /\ admitted[ip[t]][1] < now[t]
        /\ now[t] < admitted[ip[t]][1] + WindowTicks

\* C4: a denied client is admitted again by the first check at a time at
\* least W after its oldest recorded request; that admission leaves the
\* unexpired entries in the window and adds the new timestamp, so when only
\* the oldest entry had expired it takes exactly the freed slot; and a check
\* that finds RATE_LIMIT_MAX unexpired entries denies.
C4_ReadmittedWhenOldestExpires ==
    [][\A t \in Threads :
        /\ (/\ pc[t] = "rl_len" /\ pc'[t] # "rl_len"
            /\ lastDenied[ip[t]]
            /\ entry[t] # <<>>
            /\ now[t] >= entry[t][1] + WindowTicks)
           => pc'[t] = "rl_append"
        /\ (/\ pc[t] = "rl_append" /\ pc'[t] # "rl_append")
           => /\ Window(ip[t])' = Append(Unexpired(entry[t], now[t]), now[t])
              /\ Len(Unexpired(entry[t], now[t])) = Len(entry[t]) - 1
                 => Len(Window(ip[t])') = Len(entry[t])
        /\ (/\ pc[t] = "rl_len" /\ pc'[t] # "rl_len"
            /\ Len(Unexpired(entry[t], now[t])) >= RATE_LIMIT_MAX)
           => pc'[t] = "rl_deny"
      ]_vars

\* a denied client is being admitted again; only its oldest entry has expired
C4_Witness ==
    \E t \in Threads :
        /\ pc[t] = "rl_append"
        /\ lastDenied[ip[t]]
        /\ Len(entry[t]) = RATE_LIMIT_MAX
        /\ now[t] >= entry[t][1] + WindowTicks
        /\ Len(Unexpired(entry[t], now[t])) = RATE_LIMIT_MAX - 1

\* C5: a step of check_rate_limit for client A leaves the window of every
\* other client B unchanged, and a check for B denies only when B itself had
\* RATE_LIMIT_MAX requests admitted: exhausting A's quota never denies B.
C5_NoInterference ==
    [][\A t \in Threads :
        /\ (pc[t] \in CheckPCs \cup {"rl_now"} /\ pc'[t] # pc[t])
           => \A b \in Clients \ {ip[t]} :
                 /\ request_log'[b] = request_log[b]
                 /\ Window(b)' = Window(b)
        /\ pc'[t] = "rl_deny" => Len(admitted'[ip'[t]]) >= RATE_LIMIT_MAX
      ]_vars

\* a client is admitted while another client's window is full and unexpired
C5_Witness ==
    \E t \in Threads, a \in Clients :
        /\ pc[t] = "rl_append"
        /\ a # ip[t]
        /\ Len(Window(a)) >= RATE_LIMIT_MAX
        /\ Unexpired(Window(a), now[t]) = Window(a)

\* C6: on every denial the retry-after value of check_rate_limit is >= 0 and
\* <= RATE_LIMIT_WINDOW, and so is the retry_after_seconds of the 429.
C6_RetryAfterInRange ==
    \A t \in Threads :
        response[t].status = 429
        => /\ 0 <= retry_after[t] /\ retry_after[t] <= WindowTicks
           /\ 0 <= response[t].retry_after_seconds
           /\ response[t].retry_after_seconds <= RATE_LIMIT_WINDOW

\* a denial whose retry-after has a fractional part, which int() drops
C6_Witness ==
    \E t \in Threads :
        /\ response[t].status = 429
        /\ retry_after[t] % TicksPerSec # 0
        /\ response[t].retry_after_seconds * TicksPerSec < retry_after[t]

\* the message text of the body is empty or whitespace only
Blank(b) == HasText(b) /\ \A i \in DOMAIN b.text : IsSpace(b.text[i])

\* C7 as stated: every request whose message text is empty or whitespace
\* only is answered 400 invalid_request, and the external completion is not
\* invoked for it.
C7_BlankAlways400 ==
    \A t \in Threads :
        (pc[t] = "done" /\ Blank(body[t]))
        => /\ response[t].status = 400
           /\ response[t].error = "invalid_request"
           /\ extCalls[t] = 0

\* C7 as amended: a request whose message text is empty or whitespace only
\* is answered 400 invalid_request when the rate limiter admits it and 429
\* when it does not, and the external completion is invoked in neither case.
C7_BlankNeverCompleted ==
    \A t \in Threads :
        Blank(body[t])
        => /\ extCalls[t] = 0
           /\ pc[t] # "chat_wait"
           /\ pc[t] = "done"
              => \/ response[t].status = 400 /\ response[t].error = "invalid_request"
                 \/ response[t].status = 429 /\ response[t].error = "rate_limited"

\* a whitespace-only message was read and answered 400
C7_Witness ==
    \E t \in Threads :
        /\ pc[t] = "done"
        /\ Blank(body[t])
        /\ body[t].text # <<>>
        /\ response[t].status = 400

\* C8: when the external call raises, the handler answers 500 openai_error
\* after that one call, and the failure changes neither request_log nor any
\* window, so the next request meets the state a success would have left.
C8_FailureIsReportedOnce ==
    [][\A t \in Threads :
        /\ extCalls'[t] <= 1
        /\ (pc[t] = "chat_wait" /\ pc'[t] # "chat_wait")
           => /\ pc'[t] = "done"
              /\ extCalls'[t] = 1
              /\ request_log' = request_log /\ deques' = deques
              /\ resp'[t].raises
                 => response'[t].status = 500 /\ response'[t].error = "openai_error"
      ]_vars

\* a failed external call answered 500, after an earlier request
C8_Witness ==
    \E t \in Threads :
        /\ pc[t] = "done"
        /\ resp[t].raises
        /\ response[t].status = 500
        /\ nreq >= 2

\* the external call returned an object the extraction at line 102 cannot
\* read and that carries no text of the older format
Malformed(r) ==
    /\ ~r.raises
    /\ r.text # "str"
    /\ \/ r.choices = "empty"
       \/ r.choices = "one" /\ r.message # "obj"
       \/ r.choices = "one" /\ r.message = "obj" /\ r.content = "absent"

\* C9: a malformed object returned by the external call is answered 200 with
\* the fallback apology string, never 500 openai_error.
C9_MalformedYieldsFallback ==
    \A t \in Threads :
        (pc[t] = "done" /\ Malformed(resp[t]))
        => response[t].status = 200 /\ response[t].reply = "fallback"

\* C10: every request ends in one of the four documented responses, whatever
\* the shape of its body, and an admitted request gets 400 exactly when the
\* body is missing, the message field is missing or the message is empty
\* after trimming.
C10_DocumentedResponsesOnly ==
    \A t \in Threads :
        pc[t] = "done"
        => /\ <<response[t].status, response[t].error>> \in
                {<<200, "-">>, <<400, "invalid_request">>, <<429, "rate_limited">>,
                 <<500, "openai_error">>}
           /\ response[t].status # 429
              => (response[t].status = 400
                    <=> \/ ~(HasText(body[t]))
                        \/ Blank(body[t]))

\* the part of v before its first comma
UpToComma(v) ==
    LET commas == {i \in DOMAIN v : v[i] = ","}
        k == IF commas = {} THEN Len(v) + 1
             ELSE CHOOSE i \in commas : \A j \in commas : i <= j
    IN  SubSeq(v, 1, k - 1)

\* v without the spaces around it
Trimmed(v) ==
    LET solid == {i \in DOMAIN v : v[i] # " "}
    IN  IF solid = {} THEN <<>>
        ELSE SubSeq(v, CHOOSE i \in solid : \A j \in solid : i <= j,
                       CHOOSE i \in solid : \A j \in solid : i >= j)

\* the identifier C13 describes
ClaimedIdentifier(r) ==
    IF r.hasXff THEN Trimmed(UpToComma(r.xff))
    ELSE IF r.remote # <<>> THEN r.remote ELSE <<"unknown">>

\* s is what is left of h after some entries were removed from its front
IsSuffix(s, h) == Len(s) <= Len(h) /\ s = SubSeq(h, Len(h) - Len(s) + 1, Len(h))

\* C13: the identifier of a request is the first comma-separated entry of
\* X-Forwarded-For, trimmed, whenever the header is present, otherwise
\* remote_addr, otherwise "unknown"; the request keeps it to its end, its
\* admission is recorded in the window of that identifier and in no other,
\* and a window holds only timestamps of requests of its identifier: requests
\* with the same identifier share a window, requests with different ones do
\* not.
C13_IdentifierAndWindow ==
    [][\A t \in Threads :
        /\ (pc[t] = "chat_ip" /\ pc'[t] # "chat_ip")
           => ip'[t] = ClaimedIdentifier(request[t])
        /\ (pc[t] \notin {"idle", "chat_ip"} /\ pc'[t] # "idle") => ip'[t] = ip[t]
        /\ (pc[t] = "rl_append" /\ pc'[t] # "rl_append")
           => Window(ip[t])' = Append(Window(ip[t]), now[t])
        /\ (pc[t] \in CheckPCs /\ pc'[t] # pc[t])
           => /\ \A d \in Identifiers \ {ip[t]} : Window(d)' = Window(d)
              /\ IsSuffix(Window(ip[t])', admitted'[ip[t]])
      ]_vars

\* a request with an empty X-Forwarded-For header joins the window an earlier
\* such request created
C13_Witness ==
    \E t \in Threads :
        /\ pc[t] = "rl_append"
        /\ ip[t] = <<>>
        /\ entry[t] # <<>>

\* C11: check_rate_limit always returns a decision (admit, or deny with a
\* retry-after) and never raises, whatever the interleaving of the
\* invocations for one client between the emptiness test, the read of q[0]
\* and the popleft.
C11_AlwaysReturnsDecision ==
    [][\A t \in Threads :
        (pc[t] \in CheckPCs /\ pc'[t] \notin CheckPCs)
        => (pc'[t] = "chat_json" \/ response'[t].status = 429)
      ]_vars

\* C12: while a request is suspended in the external call, every other
\* request in progress has a step it can take, up to its response, and a new
\* request is accepted by a free thread: nothing the suspended request holds
\* blocks the rate-limit check or the handling of another request.
C12_OthersProceedDuringCall ==
    \A t \in Threads : \A u \in Threads \ {t} :
        pc[t] = "chat_wait"
        => /\ pc[u] # "idle" => ENABLED ConcSteps(u)
           /\ (pc[u] = "idle" /\ nreq < MaxConcRequests)
              => \A c \in Clients : ENABLED Request(u, PlainRequest(c), WellFormedBody)

\* a request of the same client is about to be denied while the other is
\* suspended in the external call
C12_Witness ==
    \E t \in Threads : \E u \in Threads \ {t} :
        /\ pc[t] = "chat_wait"
        /\ pc[u] = "rl_deny"
        /\ ip[u] = ip[t]

\* C14: a denied check does not record the request: the client's window
\* after it is the window found at the lookup without its expired entries,
\* the current time is not appended and no admission is recorded; a denial
\* that follows another denial names the same instant of readmission.
C14_DeniedNotRecorded ==
    [][\A t \in Threads :
        (pc[t] = "rl_deny" /\ pc'[t] # "rl_deny")
        => /\ response'[t].status = 429
           /\ Window(ip[t])' = Unexpired(entry[t], now[t])
           /\ admitted' = admitted
           /\ denial[ip[t]] # NoDenial => denial'[ip[t]].exact = denial[ip[t]].exact
      ]_vars

\* a denial by a full window, earlier entries of the client having expired
C14_Witness ==
    \E t \in Threads :
        /\ pc[t] = "done"
        /\ response[t].status = 429
        /\ Len(Window(ip[t])) = RATE_LIMIT_MAX
        /\ Len(admitted[ip[t]]) > RATE_LIMIT_MAX
        /\ denial[ip[t]].exact > clock

\* C15: in every interleaving a timestamp is removed from a window only by a
\* call whose own current time is at least W later than it, so no unexpired
\* timestamp of an admitted request is dropped.
C15_OnlyExpiredRemoved ==
    [][\A t \in Threads :
        (pc[t] = "rl_pop" /\ pc'[t] = "rl_while")
        => Head(deques[q[t]]) <= now[t] - WindowTicks
      ]_vars

\* C16: right after a check returns at time now, every timestamp left in
\* the client's window lies in (now - W, now].
C16_WindowWithinHorizon ==
    [][\A t \in Threads :
        (pc[t] \in {"rl_deny", "rl_append"} /\ pc'[t] \notin CheckPCs)
        => \A i \in DOMAIN Window(ip[t])' :
              /\ now[t] - WindowTicks < Window(ip[t])'[i]
              /\ Window(ip[t])'[i] <= now[t]
      ]_vars

\* an admission that removed an expired entry and kept an unexpired one
C16_Witness ==
    \E t \in Threads :
        /\ pc[t] = "rl_append"
        /\ Len(entry[t]) = RATE_LIMIT_MAX
        /\ entry[t][1] <= now[t] - WindowTicks
        /\ Len(deques[q[t]]) = RATE_LIMIT_MAX - 1
        /\ deques[q[t]][1] < now[t]

\* C17: in every reachable state every client's window is ordered oldest
\* first.
C17_WindowOrdered ==
    \A c \in Identifiers :
        \A i \in DOMAIN Window(c), j \in DOMAIN Window(c) :
            i < j => Window(c)[i] <= Window(c)[j]

\* C18: after a denial at time now with retry-after r, and no admission of
\* the client since, the client's next request is denied when it is checked
\* before now + r and admitted when it is checked at now + r.
C18_RetryAfterExact ==
    [][\A t \in Threads :
        (pc[t] = "rl_len" /\ pc'[t] # "rl_len" /\ denial[ip[t]] # NoDenial)
        => /\ now[t] < denial[ip[t]].exact => pc'[t] = "rl_deny"
           /\ now[t] = denial[ip[t]].exact => pc'[t] = "rl_append"
      ]_vars

\* a denied client is admitted by the check made exactly r after the denial
C18_Witness ==
    \E t \in Threads :
        /\ pc[t] = "rl_append"
        /\ denial[ip[t]] # NoDenial
        /\ now[t] = denial[ip[t]].exact
        /\ Len(entry[t]) = RATE_LIMIT_MAX

\* C19: a client answered 429 with retry_after_seconds = n that retries
\* exactly n seconds after the denial is admitted.
C19_ReportedWaitSuffices ==
    [][\A t \in Threads :
        (/\ pc[t] = "rl_len" /\ pc'[t] # "rl_len"
         /\ denial[ip[t]] # NoDenial
         /\ now[t] = denial[ip[t]].whole)
        => pc'[t] = "rl_append"
      ]_vars

\* C20: every request not answered 429 adds one timestamp to its client's
\* window: the admission appends it, the rest of the handler leaves every
\* window as it is whether it answers 400, 500 or 200, and no response other
\* than 429 is produced without the admission; the timestamp of a request
\* answered 400, 500 or 200 is the newest entry of its client's window, and
\* a client whose RATE_LIMIT_MAX requests in the window were all answered
\* 400 is denied.
C20_CountedWhateverTheOutcome ==
    [][\A t \in Threads :
        /\ (pc[t] = "rl_append" /\ pc'[t] # "rl_append")
           => /\ Window(ip[t])' = Append(Window(ip[t]), now[t])
              /\ pc'[t] = "chat_json"
        /\ pc[t] \in {"chat_json", "chat_wait", "done"}
           => \A c \in Identifiers : Window(c)' = Window(c)
        /\ (pc[t] # "done" /\ pc'[t] = "done" /\ response'[t].status # 429)
           => /\ pc[t] \in {"chat_json", "chat_wait"}
              /\ response'[t].status \in {200, 400, 500}
              /\ Window(ip[t])' # <<>>
              /\ Window(ip[t])'[Len(Window(ip[t])')] = admitted'[ip[t]][Len(admitted'[ip[t]])]
        /\ (/\ pc[t] = "rl_len" /\ pc'[t] # "rl_len"
            /\ invalidOnly
            /\ Cardinality(InWindow(ip[t], now[t])) >= RATE_LIMIT_MAX)
           => pc'[t] = "rl_deny"
      ]_vars

\* a well-formed request denied by a window that only requests answered 400
\* have filled
C20_Witness ==
    \E t \in Threads :
        /\ pc[t] = "done"
        /\ response[t].status = 429
        /\ body[t] = WellFormedBody
        /\ invalidOnly
        /\ Len(admitted[ip[t]]) = RATE_LIMIT_MAX

====
